---- MODULE Spec2Model ----
(***************************************************************************)
(* A model of utils.py: the rotation builders rotX, rotY, rotZ and the     *)
(* greedy colour selector getDistinguishableColors.                        *)
(*                                                                         *)
(* A behaviour is one caller invoking one of the four functions twice in a *)
(* row with the same arguments.  Each action is one block of statements of *)
(* the function being executed; pc is the position in its body.            *)
(*                                                                         *)
(* Numbers.  Colour channels are exact rationals, stored as integers in    *)
(* units of 1/One, where One = (numGrid - 1) * Sub: the k-th sample of     *)
(* np.linspace(0, 1, numGrid) is k * Sub and a background channel may be   *)
(* any integer number of units (1.0 is One, -1 is just below 0.0).         *)
(* Floating-point rounding is not modelled.  np.full(shape, 1) is modelled *)
(* as numpy >= 1.12 builds it: an array of dtype int64, so that storing a  *)
(* float into it truncates the float toward zero.                          *)
(*                                                                         *)
(* An angle is one of 12 directions whose cosine and sine are rationals    *)
(* with denominator Hyp; a number theta is stored as the pair of a         *)
(* direction and the unit in which theta measures it.                      *)
(***************************************************************************)
EXTENDS Integers, Sequences, FiniteSets

VARIABLES
    fn,         \* the function being called
    args,       \* the caller's arguments (never written by the callee)
    call,       \* 1 during the first call, 2 during the second
    prev,       \* how the first call ended (set when the second starts)
    defaultBg,  \* the list object bound to the default of bgColors (line 84)
    pc,         \* position in the body of fn
    exc,        \* the exception raised, "none" if none
    ret,        \* the value returned (meaningful when pc = "done")
    theta,      \* rot*: local theta
    mode,       \* rot*: local mode
    numColors,  \* getDistinguishableColors: local numColors
    bgColors,   \* local bgColors
    mindist,    \* local mindist: sequence over the candidates, <<>> if unbound
    colors,     \* local colors
    lastColor,  \* local lastColor, <<>> if unbound
    index,      \* local index (0-based row of rgb), meaningful once a pick was made
    i,          \* number of iterations of the selection loop completed
    j           \* number of iterations of the seeding loop completed

vars == <<fn, args, call, prev, defaultBg, pc, exc, ret, theta, mode,
          numColors, bgColors, mindist, colors, lastColor, index, i, j>>

----------------------------------------------------------------------------
(* Bounds of the model *)

\* Grid divisions per axis (the source fixes numGrid = 30, SourceNumGrid below;
\* the model runs the same code over a coarser grid).
numGrid == 3

\* Units per grid step: channel values are multiples of 1/((numGrid-1)*Sub).
Sub == 2

\* The caller asks for 0..MaxColors colours, or for the largest accepted
\* number, or for one more.
MaxColors == 3

\* numGrid in the source.
SourceNumGrid == 30

\* np.inf, the initial value of mindist: larger than every distance.
Inf == -1

One == (numGrid - 1) * Sub

----------------------------------------------------------------------------
(* Arithmetic helpers *)

Abs(a) == IF a < 0 THEN -a ELSE a

\* np.minimum on two entries, either of which may be np.inf
Minimum(a, b) ==
    IF a = Inf THEN b ELSE IF b = Inf THEN a ELSE IF a < b THEN a ELSE b

\* a > b on two entries, either of which may be np.inf
Greater(a, b) == a # b /\ (a = Inf \/ (b # Inf /\ a > b))

\* Storing the float v into an int64 array: truncation toward zero.
IntCast(v) == IF v >= 0 THEN (v \div One) * One ELSE -(((-v) \div One) * One)

----------------------------------------------------------------------------
(* Rotation builders: rotX, rotY, rotZ *)

\* The 12 directions: cosine and sine of direction d, times Hyp.
CosTab == <<5, 4, 3, 0, -3, -4, -5, -4, -3, 0, 3, 4>>
SinTab == <<0, 3, 4, 5, 4, 3, 0, -3, -4, -5, -4, -3>>
Dirs == 0 .. (Len(CosTab) - 1)

\* The matrix entry 1. in the units of the cosine and sine entries.
Hyp == CosTab[1]

\* A number t = [dir, u] is the radian measure of direction dir multiplied
\* by (180/pi)^u: u = 0 is the measure in radians, u = 1 the one in degrees.
\* np.deg2rad multiplies by pi/180.
deg2rad(t) == [t EXCEPT !.u = @ - 1]

\* np.cos, np.sin: known for the radian measure of a direction.
cos(t) == CASE t.u = 0 -> CosTab[t.dir + 1]
sin(t) == CASE t.u = 0 -> SinTab[t.dir + 1]

\* A slip in line 25: 'or' for 'and'.
InvalidModeEither(m) == m # "radians" \/ m # "degrees"

\* line 25: mode != 'radians' and mode != 'degrees'
InvalidMode(m) == m # "radians" /\ m # "degrees"

rotX(t) == << <<Hyp, 0, 0>>,
              <<0, cos(t), -sin(t)>>,
              <<0, sin(t), cos(t)>> >>

\* A slip in lines 54-55: the sine entries with the same sign.
rotYSameSign(t) == << <<cos(t), 0, sin(t)>>,
                     <<0, Hyp, 0>>,
                     <<sin(t), 0, cos(t)>> >>

rotY(t) == << <<cos(t), 0, sin(t)>>,
              <<0, Hyp, 0>>,
              <<-sin(t), 0, cos(t)>> >>

rotZ(t) == << <<cos(t), -sin(t), 0>>,
              <<sin(t), cos(t), 0>>,
              <<0, 0, Hyp>> >>

RotFns == {"rotX", "rotY", "rotZ"}

----------------------------------------------------------------------------
(* getDistinguishableColors: the candidate grid and the pure helpers *)

\* x = np.linspace(0, 1, numGrid): the k-th sample, k = 0 .. numGrid-1
x(k) == k * Sub

\* rgb.shape[0]
GridSize == numGrid * numGrid * numGrid

\* Row idx (0-based) of rgb.  meshgrid(x, x, x) with the default 'xy'
\* indexing gives R[a,b,c] = x[b], G[a,b,c] = x[a], B[a,b,c] = x[c]; .T
\* reverses the axes and reshape flattens in C order, so the row
\* idx = a*numGrid^2 + b*numGrid + c holds (x[b], x[c], x[a]).
rgb(idx) ==
    << x((idx \div numGrid) % numGrid),
       x(idx % numGrid),
       x(idx \div (numGrid * numGrid)) >>

\* np.sum(np.abs(p - q)) of one row
L1(p, q) == Abs(p[1] - q[1]) + Abs(p[2] - q[2]) + Abs(p[3] - q[3])

\* A slip in line 118: >= for >.
TooManyColorsInclusive(n, size) == 3 * n >= size

\* line 118: numColors > rgb.shape[0] / 3
TooManyColors(n, size) == 3 * n > size

\* lines 125-128: col = np.full(rgb.shape, 1); col[:,k] = c[k].  One row of
\* col: the array is integer, each channel of c is truncated on the way in.
col(c) == << IntCast(c[1]), IntCast(c[2]), IntCast(c[3]) >>

\* lines 129-130: dx = sum |rgb - col|; mindist = minimum(mindist, dx)
SeedUpdate(md, c) ==
    [k \in 1 .. GridSize |-> Minimum(md[k], L1(rgb(k - 1), col(c)))]

\* lines 140-141: dx = sum |rgb - lastColor|; mindist = minimum(mindist, dx)
LoopUpdate(md, last) ==
    [k \in 1 .. GridSize |-> Minimum(md[k], L1(rgb(k - 1), last))]

\* np.argmax: scan from the front, keep the first largest entry.
RECURSIVE ArgmaxFrom(_, _, _)
ArgmaxFrom(a, k, best) ==
    IF k > Len(a) THEN best
    ELSE IF Greater(a[k], a[best]) THEN ArgmaxFrom(a, k + 1, k)
         ELSE ArgmaxFrom(a, k + 1, best)

\* An argmax that keeps the last largest entry.
RECURSIVE ArgmaxLastFrom(_, _, _)
ArgmaxLastFrom(a, k, best) ==
    IF k > Len(a) THEN best
    ELSE IF Greater(a[best], a[k]) THEN ArgmaxLastFrom(a, k + 1, best)
         ELSE ArgmaxLastFrom(a, k + 1, k)

argmaxLast(a) == ArgmaxLastFrom(a, 2, 1) - 1

\* index = np.argmax(mindist), 0-based
argmax(a) == ArgmaxFrom(a, 2, 1) - 1

\* line 84: bgColors = [(1, 1, 1)]
White == <<One, One, One>>

\* A line 134 that falls back to white when bgColors is empty.
LastBgOrWhite(bg) ==
    [exc |-> "none", value |-> IF Len(bg) = 0 THEN White ELSE bg[Len(bg)]]

\* line 134: lastColor = bgColors[-1]
LastBg(bg) ==
    IF Len(bg) = 0 THEN [exc |-> "IndexError", value |-> <<>>]
    ELSE [exc |-> "none", value |-> bg[Len(bg)]]

\* A slip in line 135: one iteration too many.
LoopContinuesInclusive(done, n) == done <= n

\* line 135: for i in range(numColors)
LoopContinues(done, n) == done < n

----------------------------------------------------------------------------
(* Inputs *)

Modes == {"radians", "degrees", "foo"}

\* The numbers theta whose cosine the model knows after the conversion the
\* mode asks for; with an invalid mode, both kinds.
Thetas(m) ==
    [dir : Dirs,
     u : IF m = "radians" THEN {0} ELSE IF m = "degrees" THEN {1} ELSE {0, 1}]

NoTheta == [dir |-> 0, u |-> 0]

\* Background channels: 0.0, a grid sample that is not an integer, a value
\* between two samples, 1.0; and two triples with channels outside [0,1].
BgChan == {0, Sub, One - 1, One}
Palette ==
    {<<r, g, b>> : r \in BgChan, g \in BgChan, b \in BgChan}
        \cup {<<-1, -1, -1>>, <<One + 1, 0, -1>>}
BgInputs ==
    {<<>>} \cup {<<c>> : c \in Palette} \cup {<<c, d>> : c \in Palette, d \in Palette}

Limit == GridSize \div 3
NumColorsInputs == (0 .. MaxColors) \cup {Limit, Limit + 1}

RotArgs ==
    {[theta |-> t, mode |-> m, numColors |-> 0, bgGiven |-> FALSE, bgColors |-> <<>>] :
        m \in Modes, t \in UNION {Thetas(mm) : mm \in Modes}}

ColorArgs ==
    [theta : {NoTheta}, mode : {""}, numColors : NumColorsInputs,
     bgGiven : {TRUE}, bgColors : BgInputs]
        \cup [theta : {NoTheta}, mode : {""}, numColors : NumColorsInputs,
              bgGiven : {FALSE}, bgColors : {<<>>}]

NoOutcome == [pc |-> "none", exc |-> "none", ret |-> <<>>]

\* Entry of a call: no local is bound.
Entry ==
    /\ pc = "call"
    /\ exc = "none"
    /\ ret = <<>>
    /\ theta = NoTheta
    /\ mode = ""
    /\ numColors = 0
    /\ bgColors = <<>>
    /\ mindist = <<>>
    /\ colors = <<>>
    /\ lastColor = <<>>
    /\ index = 0
    /\ i = 0
    /\ j = 0

Init ==
    /\ fn \in RotFns \cup {"getDistinguishableColors"}
    /\ \/ fn \in RotFns /\ args \in {a \in RotArgs : a.theta \in Thetas(a.mode)}
       \/ fn = "getDistinguishableColors" /\ args \in ColorArgs
    /\ call = 1
    /\ prev = NoOutcome
    /\ defaultBg = <<White>>
    /\ Entry

----------------------------------------------------------------------------
(* rotX, rotY, rotZ: the three bodies differ only in the matrix returned *)

colorLocals == <<numColors, bgColors, mindist, colors, lastColor, index, i, j>>
rotLocals == <<theta, mode>>
caller == <<fn, args, call, prev, defaultBg>>

\* lines 8, 25-26 (33, 50-51; 58, 75-76): bind the parameters, check mode
RotCheckMode ==
    /\ fn \in RotFns
    /\ pc = "call"
    /\ theta' = args.theta
    /\ mode' = args.mode
    /\ IF InvalidMode(args.mode)
       THEN pc' = "raised" /\ exc' = "ValueError"
       ELSE pc' = "convert" /\ exc' = exc
    /\ UNCHANGED <<ret, colorLocals, caller>>

\* lines 27-28 (52-53, 77-78): if mode == 'degrees': theta = np.deg2rad(theta)
RotConvert ==
    /\ fn \in RotFns
    /\ pc = "convert"
    /\ theta' = IF mode = "degrees" THEN deg2rad(theta) ELSE theta
    /\ pc' = "build"
    /\ UNCHANGED <<exc, ret, mode, colorLocals, caller>>

\* lines 29-30 (54-55, 79-80): return np.matrix(...)
RotBuild ==
    /\ fn \in RotFns
    /\ pc = "build"
    /\ ret' = CASE fn = "rotX" -> rotX(theta)
                [] fn = "rotY" -> rotY(theta)
                [] fn = "rotZ" -> rotZ(theta)
    /\ pc' = "done"
    /\ UNCHANGED <<exc, theta, mode, colorLocals, caller>>

----------------------------------------------------------------------------
(* getDistinguishableColors *)

IsColors == fn = "getDistinguishableColors"

\* lines 84, 112-123: bind the parameters (an omitted bgColors is the default
\* list object), build the grid, reject too many colours, else set every
\* entry of mindist to np.inf.
CheckNumColors ==
    /\ IsColors
    /\ pc = "call"
    /\ numColors' = args.numColors
    /\ bgColors' = IF args.bgGiven THEN args.bgColors ELSE defaultBg
    /\ IF TooManyColors(args.numColors, GridSize)
       THEN /\ pc' = "raised"
            /\ exc' = "ValueError"
            /\ mindist' = mindist
       ELSE /\ pc' = "seed"
            /\ exc' = exc
            /\ mindist' = [k \in 1 .. GridSize |-> Inf]
    /\ UNCHANGED <<ret, colors, lastColor, index, i, j, rotLocals, caller>>

\* lines 124-130: one iteration of  for c in bgColors
SeedStep ==
    /\ IsColors
    /\ pc = "seed"
    /\ j < Len(bgColors)
    /\ mindist' = SeedUpdate(mindist, bgColors[j + 1])
    /\ j' = j + 1
    /\ UNCHANGED <<pc, exc, ret, numColors, bgColors, colors, lastColor, index, i,
                   rotLocals, caller>>

\* lines 133-134: colors = []; lastColor = bgColors[-1]
InitColors ==
    /\ IsColors
    /\ pc = "seed"
    /\ j = Len(bgColors)
    /\ colors' = <<>>
    /\ IF LastBg(bgColors).exc # "none"
       THEN /\ pc' = "raised"
            /\ exc' = LastBg(bgColors).exc
            /\ lastColor' = lastColor
       ELSE /\ pc' = "loop"
            /\ exc' = exc
            /\ lastColor' = LastBg(bgColors).value
    /\ UNCHANGED <<ret, numColors, bgColors, mindist, index, i, j, rotLocals, caller>>

\* lines 135-145: one iteration of  for i in range(numColors)
\* (the array col of lines 136-139 is written and never read)
SelectStep ==
    /\ IsColors
    /\ pc = "loop"
    /\ LoopContinues(i, numColors)
    /\ mindist' = LoopUpdate(mindist, lastColor)
    /\ index' = argmax(mindist')
    /\ colors' = Append(colors, rgb(index'))
    /\ lastColor' = rgb(index')
    /\ i' = i + 1
    /\ UNCHANGED <<pc, exc, ret, numColors, bgColors, j, rotLocals, caller>>

\* line 147: return colors
Return ==
    /\ IsColors
    /\ pc = "loop"
    /\ ~LoopContinues(i, numColors)
    /\ ret' = colors
    /\ pc' = "done"
    /\ UNCHANGED <<exc, numColors, bgColors, mindist, colors, lastColor, index, i, j,
                   rotLocals, caller>>

----------------------------------------------------------------------------
(* The caller *)

Ended == pc \in {"done", "raised"}

Outcome == [pc |-> pc, exc |-> exc, ret |-> ret]

\* The caller notes how the call ended and calls again with the same
\* arguments: the locals of the finished call are gone, the default list
\* object of bgColors stays.
NextCall ==
    /\ Ended
    /\ call = 1
    /\ prev' = Outcome
    /\ call' = 2
    /\ pc' = "call"
    /\ exc' = "none"
    /\ ret' = <<>>
    /\ theta' = NoTheta
    /\ mode' = ""
    /\ numColors' = 0
    /\ bgColors' = <<>>
    /\ mindist' = <<>>
    /\ colors' = <<>>
    /\ lastColor' = <<>>
    /\ index' = 0
    /\ i' = 0
    /\ j' = 0
    /\ UNCHANGED <<fn, args, defaultBg>>

Next ==
    \/ RotCheckMode
    \/ RotConvert
    \/ RotBuild
    \/ CheckNumColors
    \/ SeedStep
    \/ InitColors
    \/ SelectStep
    \/ Return
    \/ NextCall

Spec == Init /\ [][Next]_vars

----------------------------------------------------------------------------
(* Definitions used to state the properties *)

GridPoints ==
    {<<x(a), x(b), x(c)>> : a \in 0 .. (numGrid - 1), b \in 0 .. (numGrid - 1),
                            c \in 0 .. (numGrid - 1)}

InUnitRange(c) == \A k \in 1 .. 3 : 0 <= c[k] /\ c[k] <= One

SetMin(S) == CHOOSE m \in S : \A n \in S : m <= n
SetMax(S) == CHOOSE m \in S : \A n \in S : n <= m

\* The exact minimum L1 distance from point p to the background colours as
\* the caller gave them and to the first k returned colours.
ExactMinDist(p, k) ==
    SetMin({L1(p, bgColors[b]) : b \in 1 .. Len(bgColors)}
               \cup {L1(p, colors[c]) : c \in 1 .. k})

\* The largest entry of mindist (no entry is np.inf once the loop has run)
MaxEntry == SetMax({mindist[k] : k \in 1 .. GridSize})

Identity3 ==
    << <<Hyp * Hyp, 0, 0>>, <<0, Hyp * Hyp, 0>>, <<0, 0, Hyp * Hyp>> >>

\* transpose(M) * M
Gram(M) ==
    [r \in 1 .. 3 |-> [c \in 1 .. 3 |->
        M[1][r] * M[1][c] + M[2][r] * M[2][c] + M[3][r] * M[3][c]]]

Det(M) ==
    M[1][1] * (M[2][2] * M[3][3] - M[2][3] * M[3][2])
        - M[1][2] * (M[2][1] * M[3][3] - M[2][3] * M[3][1])
        + M[1][3] * (M[2][1] * M[3][2] - M[2][2] * M[3][1])

Axis == CASE fn = "rotX" -> 1 [] fn = "rotY" -> 2 [] fn = "rotZ" -> 3

----------------------------------------------------------------------------
(* Properties *)

\* C1: a call with 1 <= numColors <= Limit and a non-empty bgColors (channels
\* outside [0,1] included) returns, and what getDistinguishableColors
\* returns is a list of exactly numColors triples, each a point of the grid.
C1_CountAndGrid ==
    /\ (IsColors /\ Ended /\ args.numColors >= 1 /\ args.numColors <= Limit
            /\ args.bgGiven /\ args.bgColors # <<>>)
          => pc = "done"
    /\ (IsColors /\ pc = "done")
          => /\ Len(ret) = args.numColors
             /\ \A k \in 1 .. Len(ret) : ret[k] \in GridPoints

C1_Witness ==
    /\ IsColors
    /\ pc = "done"
    /\ args.numColors = Limit
    /\ Len(ret) = Limit
    /\ \E b \in 1 .. Len(args.bgColors) : ~InUnitRange(args.bgColors[b])

\* C2: the k-th returned colour maximizes, over all candidates, the minimum
\* L1 distance to every colour of bgColors and to the k-1 colours returned
\* before it.
C2_GreedyMaximizer ==
    (IsColors /\ pc \in {"loop", "done"})
        => \A k \in 1 .. Len(colors) :
              \A c \in 0 .. (GridSize - 1) :
                  ExactMinDist(rgb(c), k - 1) <= ExactMinDist(colors[k], k - 1)

\* C3: the too-many-colours error is raised exactly when numColors exceeds a
\* third of the grid size, and then nothing was computed or selected; with
\* the 30 divisions of the source, 9001 is rejected and 9000 is not.
C3_TooManyExactly ==
    /\ (IsColors /\ pc # "call")
          => ((exc = "ValueError") <=> (args.numColors > Limit))
    /\ (IsColors /\ exc = "ValueError")
          => /\ pc = "raised"
             /\ mindist = <<>> /\ colors = <<>> /\ ret = <<>> /\ lastColor = <<>>
             /\ i = 0 /\ j = 0
    /\ TooManyColors(9001, SourceNumGrid * SourceNumGrid * SourceNumGrid)
    /\ ~TooManyColors(9000, SourceNumGrid * SourceNumGrid * SourceNumGrid)

C3_Witness ==
    /\ IsColors
    /\ pc = "raised"
    /\ exc = "ValueError"
    /\ args.numColors = Limit + 1
    /\ bgColors # <<>>

\* C4 (as stated): a call with an empty bgColors ends with the ValueError of
\* the validation failures, whatever numColors is.
C4_EmptyBgValueError ==
    (IsColors /\ Ended /\ args.bgGiven /\ args.bgColors = <<>>)
        => (pc = "raised" /\ exc = "ValueError")

\* C4 (amended): a call with an empty bgColors never returns: it raises the
\* too-many-colours ValueError when numColors exceeds the limit and an
\* IndexError (from bgColors[-1]) otherwise.
C4_EmptyBgRaises ==
    (IsColors /\ Ended /\ args.bgGiven /\ args.bgColors = <<>>)
        => /\ pc = "raised"
           /\ exc = IF args.numColors > Limit THEN "ValueError" ELSE "IndexError"
           /\ ret = <<>>

C4_Witness ==
    /\ IsColors
    /\ args.bgGiven
    /\ args.bgColors = <<>>
    /\ args.numColors >= 1
    /\ pc = "raised"
    /\ exc = "IndexError"

\* C5: every pick is the first candidate, in row order of rgb, among those
\* with the largest running minimum distance; and the second of two calls
\* with the same arguments ends as the first did, with the same list.
C5_FirstMaxDeterministic ==
    /\ (IsColors /\ pc \in {"loop", "done"} /\ i >= 1)
          => /\ mindist[index + 1] = MaxEntry
             /\ \A k \in 1 .. index : mindist[k] # MaxEntry
             /\ colors[i] = rgb(index)
    /\ (IsColors /\ call = 2 /\ Ended) => Outcome = prev

C5_Witness ==
    /\ IsColors
    /\ call = 2
    /\ pc = "done"
    /\ i >= 2
    /\ ret = prev.ret
    /\ \E k \in (index + 2) .. GridSize : mindist[k] = mindist[index + 1]

\* C6: in rotX, rotY, rotZ a mode other than 'radians' and 'degrees' raises
\* before theta is converted or a matrix is built, and with one of the two
\* modes nothing is raised.
C6_ModeOnlyError ==
    (fn \in RotFns /\ pc # "call")
        => /\ args.mode \notin {"radians", "degrees"}
                => /\ pc = "raised"
                   /\ exc = "ValueError"
                   /\ theta = args.theta
                   /\ ret = <<>>
           /\ args.mode \in {"radians", "degrees"}
                => (pc # "raised" /\ exc = "none")

C6_Witness ==
    /\ fn \in RotFns
    /\ pc = "raised"
    /\ exc = "ValueError"
    /\ args.mode = "foo"
    /\ args.theta.u = 1

\* C7: the matrix returned is a proper rotation: transpose(R) * R is the
\* identity, det(R) = 1, and the row and the column of the named axis are
\* those of the identity.
C7_ProperRotation ==
    (fn \in RotFns /\ pc = "done")
        => /\ Gram(ret) = Identity3
           /\ Det(ret) = Hyp * Hyp * Hyp
           /\ \A k \in 1 .. 3 :
                 /\ ret[Axis][k] = (IF k = Axis THEN Hyp ELSE 0)
                 /\ ret[k][Axis] = (IF k = Axis THEN Hyp ELSE 0)

C7_Witness ==
    /\ fn = "rotY"
    /\ pc = "done"
    /\ args.mode = "degrees"
    /\ ret[1][3] < 0
    /\ ret[1][1] > 0

\* C8: when the seeding loop has ended, the running minimum distance of
\* every candidate is the minimum over bgColors of its exact L1 distance to
\* the background colour as given.
C8_SeedExact ==
    (IsColors /\ pc = "loop" /\ i = 0)
        => \A k \in 1 .. GridSize : mindist[k] = ExactMinDist(rgb(k - 1), 0)

\* C9: the update of the first iteration of the selection loop leaves the
\* running minimum distance of every candidate as the seeding left it.
C9_FirstUpdateRedundant ==
    [][(IsColors /\ pc = "loop" /\ i = 0 /\ i' = 1) => mindist' = mindist]_vars

\* C10: when len(bgColors) + numColors <= grid size and numColors <= Limit,
\* every pick has a strictly positive running minimum distance, and the
\* returned colours are pairwise distinct and none is a colour of bgColors.
C10_DistinctFromAll ==
    (IsColors /\ pc \in {"loop", "done"} /\ i >= 1
            /\ Len(bgColors) + numColors <= GridSize /\ numColors <= Limit)
        => /\ mindist[index + 1] > 0
           /\ \A k \in 1 .. Len(colors) : \A m \in 1 .. Len(colors) :
                 k # m => colors[k] # colors[m]
           /\ \A k \in 1 .. Len(colors) : \A b \in 1 .. Len(bgColors) :
                 colors[k] # bgColors[b]

====
